---- MODULE Spec2Model ----
(***************************************************************************)
(* Model of mongodb-query-performance:                                     *)
(*   - filters.ts : analyzeUserDistribution (cached profile),              *)
(*                  generatePreciseUserFilter (candidate generator) and    *)
(*                  generateOptimalUserFilter (10-attempt controller)      *)
(*   - index.ts   : getSingleColumnCursorPagination (keyset paginator)     *)
(*                                                                         *)
(* Math.random() and the $sample stage are driven by a stream of draws     *)
(* Draw(k) = (seed + k*step) % RandDen; a draw d stands for the real       *)
(* number d / RandDen in [0,1).  Every behaviour fixes one stream in Init, *)
(* so the set of behaviours ranges over all streams of that family.        *)
(***************************************************************************)
EXTENDS Integers, Sequences, FiniteSets, TLC

VARIABLES
    users,             \* the "users" collection (sequence of user documents)
    targetCount,       \* argument of generateOptimalUserFilter
    seed, step,        \* the stream of random draws of this run
    dbOrder,           \* how the database orders equal keys in $sort (1 / -1)
    calls,             \* number of draws consumed so far
    pc,                \* position in generateOptimalUserFilter
    attempt,           \* loop variable
    filter, count, distance,               \* locals of the current attempt
    bestFilter, bestCount, bestDistance,   \* best attempt so far
    previousAttempts,  \* Array<{filter, count}>
    result,            \* the returned {filter, count, targetCount}
    countQueries,      \* countDocuments calls issued in this run
    aggQueries,        \* aggregate calls issued in this run
    scanQueries,       \* aggregates of a strategy that read the whole collection
    thrown,            \* the rejection that ended the run, "none" if there is none
    cachedDistribution,  \* module variable of filters.ts: <<>> is null
    callers,           \* the calls of analyzeUserDistribution, one per caller
    ncalls,            \* calls of analyzeUserDistribution started so far
    seeds,             \* how many times the users collection was re-seeded
    first,             \* the first snapshot a call computed, and when
    filtersData,       \* main: the entry written to filters.json, <<>> before
    kinds,             \* kinds of predicate the generator has returned so far
    client, db,        \* module variables of db.ts: 0 is null / undefined
    created,           \* MongoClient objects constructed so far
    handle,            \* what the latest connectToMongoDB call returned, 0 if nothing
    lastOp,            \* the latest call of db.ts and how it ended
    connCalls,         \* calls of db.ts made so far
    oids,              \* benchmark: the _id of each user, in collection order
    actualCount,       \* benchmark: actualCount of the filter read from filters.json
    method,            \* benchmark: index of the method being timed
    iteration,         \* benchmark: loop variable i
    nonPaginatedResults, paginatedResults,  \* benchmark: lastResults per method
    bpc,               \* benchmark: position in main
    docs, userIds, sortField, sortDirection, limit,  \* paginator inputs
    lastValue, lastId, \* cursor arguments of the next page request
    page,              \* result of the latest page request
    collected,         \* concatenation of the pages fetched so far
    requests,          \* page requests issued in this chain
    ppc                \* position of the page chain

synthVars == <<users, targetCount, seed, step, dbOrder, calls, pc, attempt,
               filter, count, distance, bestFilter, bestCount, bestDistance,
               previousAttempts, result, countQueries, aggQueries, scanQueries,
               thrown>>

pageVars == <<docs, userIds, sortField, sortDirection, limit, lastValue,
              lastId, page, collected, requests, ppc>>

profVars == <<cachedDistribution, callers, ncalls, seeds, first>>

mainVars == <<filtersData>>

genVars == <<kinds>>

connVars == <<client, db, created, handle, lastOp, connCalls>>

benchVars == <<oids, actualCount, method, iteration, nonPaginatedResults,
               paginatedResults, bpc>>

otherVars == <<mainVars, genVars, connVars, benchVars>>

vars == <<synthVars, pageVars, profVars, otherVars>>

----------------------------------------------------------------------------
(* Bounds of the model *)

MaxUsers == 4        \* user documents 1..MaxUsers may be in the collection
RandDen == 5         \* draws are 0..RandDen-1, standing for d / RandDen
SampleSize == 2      \* size of the $sample stage, scaled down from 10000
MaxDocs == 4         \* documents 1..MaxDocs may be in the documents collection
MaxLimit == 3        \* page sizes 1..MaxLimit
MaxRequests == 6     \* a page chain is followed for at most MaxRequests requests
MaxProfileCalls == 2 \* calls of analyzeUserDistribution in one behaviour
MaxSeeds == 1        \* re-seedings of the users collection in one behaviour
MaxClients == 3       \* MongoClient objects constructed in one behaviour
MaxConnCalls == 8     \* calls of connectToMongoDB / closeMongoDB in one behaviour
MaxIterations == 2    \* --iterations of the benchmark
PageScale == 4        \* the factor 100 of skip and limit, scaled to MaxDocs documents

(* Program constants *)

\* mutant: one attempt too many (attempt <= 10)
MaxAttempts_Eleven == 10 + 1

MaxAttempts == 10
Infinity == -1       \* stands for the JavaScript value Infinity

----------------------------------------------------------------------------
(* The users collection *)

StatusValues == <<"active", "inactive">>
DepartmentValues == <<"engineering", "marketing", "sales">>
LocationValues == <<"London", "Tokyo">>
EmailDomains == <<"gmail.com", "company.com">>

UserAt(i) ==
    [ age        |-> 18 + ((i * 7) % 5) * 10,
      salary     |-> 30 + ((i * i) % 4) * 10,
      status     |-> StatusValues[(i % 2) + 1],
      department |-> DepartmentValues[(i % 3) + 1],
      location   |-> LocationValues[((i \div 2) % 2) + 1],
      isManager  |-> (i % 4 = 0),
      joinDate   |-> 2015 + (i % 3),
      email      |-> <<"user", EmailDomains[((i \div 3) % 2) + 1]>> ]

RECURSIVE SeqOfSet(_, _)
\* the members of the index set S between i and MaxUsers, in index order
SeqOfSet(S, i) ==
    IF i > MaxUsers THEN <<>>
    ELSE IF i \in S THEN <<UserAt(i)>> \o SeqOfSet(S, i + 1)
    ELSE SeqOfSet(S, i + 1)

Collections == { SeqOfSet(S, 1) : S \in SUBSET (1..MaxUsers) }

----------------------------------------------------------------------------
(* Predicates (filters) and their evaluation by the database *)

MatchAll ==
    [kind |-> "all", field |-> "", lo |-> 0, hi |-> 0, vals |-> <<>>, parts |-> <<>>]

RangeFilter(f, lo, hi) ==
    [kind |-> "range", field |-> f, lo |-> lo, hi |-> hi, vals |-> <<>>, parts |-> <<>>]

EqFilter(f, v) ==
    [kind |-> "eq", field |-> f, lo |-> 0, hi |-> 0, vals |-> <<v>>, parts |-> <<>>]

InFilter(f, vs) ==
    [kind |-> "in", field |-> f, lo |-> 0, hi |-> 0, vals |-> vs, parts |-> <<>>]

TrueFilter(f) ==
    [kind |-> "true", field |-> f, lo |-> 0, hi |-> 0, vals |-> <<>>, parts |-> <<>>]

AndFilter(ps) ==
    [kind |-> "and", field |-> "", lo |-> 0, hi |-> 0, vals |-> <<>>, parts |-> ps]

MatchesSimple(u, f) ==
    CASE f.kind = "all"   -> TRUE
      [] f.kind = "range" -> u[f.field] >= f.lo /\ u[f.field] <= f.hi
      [] f.kind = "eq"    -> u[f.field] = f.vals[1]
      [] f.kind = "in"    -> \E k \in DOMAIN f.vals : u[f.field] = f.vals[k]
      [] f.kind = "true"  -> u[f.field] = TRUE
      [] OTHER            -> FALSE

Matches(u, f) ==
    IF f.kind = "and"
    THEN \A k \in DOMAIN f.parts : MatchesSimple(u, f.parts[k])
    ELSE MatchesSimple(u, f)

CountDocuments(usrs, f) ==
    Cardinality({ i \in DOMAIN usrs : Matches(usrs[i], f) })

----------------------------------------------------------------------------
(* Arithmetic of the generator, on draws d standing for d / RandDen *)

Min(a, b) == IF a < b THEN a ELSE b

Max(a, b) == IF a > b THEN a ELSE b

\* Math.ceil(a / b) for a >= 0, b > 0
CeilDiv(a, b) == (a + b - 1) \div b

\* the k-th value returned by Math.random() / used by $sample in this run
Draw(k) == (seed + k * step) % RandDen

\* Math.random() < 0.3
Under03(d) == d * 10 < 3 * RandDen

\* Math.floor(Math.random() * (num / den)), num >= 0, den > 0
FloorRandom(d, num, den) == (d * num) \div (RandDen * den)

\* Math.ceil(targetCount * 0.1): the least integer n with n >= targetCount / 10
MarginOfError(t) == CHOOSE n \in 0..(t + 1) : 10 * n >= t /\ 10 * (n - 1) < t

----------------------------------------------------------------------------
(* Database stages used by the generator *)

\* { $sample: { size } }: min(size, N) documents, chosen by the draw d
Sample(usrs, d) ==
    LET n == Len(usrs)
        k == Min(SampleSize, n)
    IN  [j \in 1..k |-> usrs[((d + j - 1) % n) + 1]]

RECURSIVE Insert(_, _)
Insert(x, s) ==
    IF s = <<>> THEN <<x>>
    ELSE IF x <= Head(s) THEN <<x>> \o s
    ELSE <<Head(s)>> \o Insert(x, Tail(s))

RECURSIVE SortAsc(_)
\* { $sort: { field: 1 } } followed by $push of the field
SortAsc(s) == IF s = <<>> THEN <<>> ELSE Insert(Head(s), SortAsc(Tail(s)))

FieldValues(field) ==
    CASE field = "status"     -> StatusValues
      [] field = "department" -> DepartmentValues
      [] field = "location"   -> LocationValues

PosOf(field, v) == CHOOSE k \in DOMAIN FieldValues(field) : FieldValues(field)[k] = v

GroupCount(usrs, field, v) == Cardinality({ i \in DOMAIN usrs : usrs[i][field] = v })

\* v comes before w in { $sort: { count: -1 } }; equal counts in database order
GroupBefore(usrs, field, v, w) ==
    \/ GroupCount(usrs, field, v) > GroupCount(usrs, field, w)
    \/ /\ GroupCount(usrs, field, v) = GroupCount(usrs, field, w)
       /\ dbOrder * PosOf(field, v) < dbOrder * PosOf(field, w)

RECURSIVE SortGroups(_, _, _)
SortGroups(usrs, field, S) ==
    IF S = {} THEN <<>>
    ELSE LET m == CHOOSE v \in S : \A w \in S \ {v} : GroupBefore(usrs, field, v, w)
         IN  <<[id |-> m, count |-> GroupCount(usrs, field, m)]>>
                 \o SortGroups(usrs, field, S \ {m})

\* [{ $group: { _id: "$field", count: { $sum: 1 } } }, { $sort: { count: -1 } }]
GroupCounts(usrs, field) ==
    SortGroups(usrs, field, { usrs[i][field] : i \in DOMAIN usrs })

----------------------------------------------------------------------------
(* generatePreciseUserFilter *)

\* Math.floor(Math.random() * (length * (1 - targetPercentage)))
StartIndex(len, t, totalUsers, dStart) ==
    FloorRandom(dStart, len * (totalUsers - t), totalUsers)

\* mutant: the window length is rounded down
EndIndex_Floor(startIndex, len, t, totalUsers) ==
    Min(startIndex + ((len * t) \div totalUsers), len - 1)

\* Math.min(startIndex + Math.ceil(length * targetPercentage), length - 1)
EndIndex(startIndex, len, t, totalUsers) ==
    Min(startIndex + CeilDiv(len * t, totalUsers), len - 1)

\* Strategies 1 and 2: range between two percentiles of a sorted sample;
\* dSample drives $sample, dStart is the Math.random() of startIndex
PercentileFilter(usrs, t, field, dSample, dStart) ==
    LET totalUsers == Len(usrs)
        smp == Sample(usrs, dSample)
        values == SortAsc([j \in DOMAIN smp |-> smp[j][field]])
        len == Len(values)
        startIndex == StartIndex(len, t, totalUsers, dStart)
        endIndex == EndIndex(startIndex, len, t, totalUsers)
    IN  RangeFilter(field, values[startIndex + 1], values[endIndex + 1])

RECURSIVE Accumulate_Strict(_, _, _, _, _)
\* mutant: the loop stops only when cumulative > targetCount
Accumulate_Strict(counts, i, cumulative, selectedValues, t) ==
    IF i > Len(counts) THEN selectedValues
    ELSE LET cum == cumulative + counts[i].count
             sel == Append(selectedValues, counts[i].id)
         IN  IF cum > t THEN sel ELSE Accumulate_Strict(counts, i + 1, cum, sel, t)

RECURSIVE Accumulate_BeforePush(_, _, _, _, _)
\* mutant: the loop stops before pushing the value that reaches targetCount
Accumulate_BeforePush(counts, i, cumulative, selectedValues, t) ==
    IF i > Len(counts) THEN selectedValues
    ELSE LET cum == cumulative + counts[i].count
             sel == Append(selectedValues, counts[i].id)
         IN  IF cum >= t /\ selectedValues # <<>> THEN selectedValues
             ELSE Accumulate_BeforePush(counts, i + 1, cum, sel, t)

RECURSIVE Accumulate(_, _, _, _, _)
\* the for loop over counts: push values until cumulative >= targetCount
Accumulate(counts, i, cumulative, selectedValues, t) ==
    IF i > Len(counts) THEN selectedValues
    ELSE LET cum == cumulative + counts[i].count
             sel == Append(selectedValues, counts[i].id)
         IN  IF cum >= t THEN sel ELSE Accumulate(counts, i + 1, cum, sel, t)

CategoricalStrategies == <<"status", "department", "location">>

\* Strategy 3; <<>> stands for "no return" (falls through to strategy 4)
CategoricalFilter(usrs, t, dField) ==
    LET field == CategoricalStrategies[FloorRandom(dField, Len(CategoricalStrategies), 1) + 1]
        counts == GroupCounts(usrs, field)
        selectedValues == Accumulate(counts, 1, 0, <<>>, t)
    IN  IF Len(counts) > 0 /\ Len(selectedValues) = 1
        THEN <<EqFilter(field, selectedValues[1])>>
        ELSE IF Len(counts) > 0 /\ Len(selectedValues) > 1
        THEN <<InFilter(field, selectedValues)>>
        ELSE <<>>

\* Math.max(5, Math.ceil(62 * Math.sqrt(targetPercentage * 0.8)))
TargetAgeRange(t, totalUsers) ==
    Max(5, CHOOSE n \in 0..62 :
               /\ 5 * n * n * totalUsers >= 15376 * t
               /\ (n = 0 \/ 5 * (n - 1) * (n - 1) * totalUsers < 15376 * t))

\* Strategy 4: conjunction of 1..3 constraints
CombinedFilter(t, totalUsers, dAge, dDept) ==
    LET targetAgeRange == TargetAgeRange(t, totalUsers)
        startAge == 18 + FloorRandom(dAge, 62 - targetAgeRange, 1)
        agePart == <<RangeFilter("age", startAge, startAge + targetAgeRange)>>
        deptPart == IF 10 * t < totalUsers
                    THEN <<EqFilter("department",
                             DepartmentValues[FloorRandom(dDept, 3, 1) + 1])>>
                    ELSE <<>>
        mgrPart == IF 20 * t < totalUsers THEN <<TrueFilter("isManager")>> ELSE <<>>
    IN  AndFilter(agePart \o deptPart \o mgrPart)

\* Fallback: simple age range
FallbackFilter(t, totalUsers, dAge) ==
    LET ageRangeSize == CeilDiv(62 * t, totalUsers)
        startAge == 18 + FloorRandom(dAge, 62 - ageRangeSize, 1)
    IN  RangeFilter("age", startAge, startAge + ageRangeSize)

\* the part of generatePreciseUserFilter after strategies 1 and 2;
\* c is the number of draws consumed before it
FromCategorical(usrs, t, c) ==
    LET totalUsers == Len(usrs)
        cat == CategoricalFilter(usrs, t, Draw(c))
    IN  IF cat # <<>>
        THEN [filter |-> cat[1], calls |-> c + 1, counts |-> 1, aggs |-> 1, scans |-> 1]
        ELSE IF 5 * t < totalUsers
        THEN [filter |-> CombinedFilter(t, totalUsers, Draw(c + 1), Draw(c + 2)),
              calls |-> c + (IF 10 * t < totalUsers THEN 3 ELSE 2),
              counts |-> 1, aggs |-> 1, scans |-> 1]
        ELSE [filter |-> FallbackFilter(t, totalUsers, Draw(c + 1)),
              calls |-> c + 2, counts |-> 1, aggs |-> 1, scans |-> 1]

\* mutant: the degenerate case returns without a value
GeneratePreciseUserFilter_BareReturn(usrs, t, prev, c) ==
    LET totalUsers == Len(usrs)
    IN  IF t >= totalUsers
        THEN [filter |-> [kind |-> "undefined", field |-> "", lo |-> 0, hi |-> 0,
                           vals |-> <<>>, parts |-> <<>>],
              calls |-> c, counts |-> 1, aggs |-> 0, scans |-> 0]
        ELSE IF Under03(Draw(c)) /\ Len(Sample(usrs, Draw(c + 1))) > 0
        THEN [filter |-> PercentileFilter(usrs, t, "age", Draw(c + 1), Draw(c + 2)),
              calls |-> c + 3, counts |-> 1, aggs |-> 1, scans |-> 0]
        ELSE IF Under03(Draw(c + 1)) /\ Len(Sample(usrs, Draw(c + 2))) > 0
        THEN [filter |-> PercentileFilter(usrs, t, "salary", Draw(c + 2), Draw(c + 3)),
              calls |-> c + 4, counts |-> 1, aggs |-> 1, scans |-> 0]
        ELSE FromCategorical(usrs, t, c + 2)

\* mutant: after a first attempt the percentile strategies are no longer tried
GeneratePreciseUserFilter_LearnsFromAttempts(usrs, t, prev, c) ==
    LET totalUsers == Len(usrs)
    IN  IF t >= totalUsers
        THEN [filter |-> MatchAll, calls |-> c, counts |-> 1, aggs |-> 0, scans |-> 0]
        ELSE IF prev # <<>>
        THEN FromCategorical(usrs, t, c + 2)
        ELSE IF Under03(Draw(c)) /\ Len(Sample(usrs, Draw(c + 1))) > 0
        THEN [filter |-> PercentileFilter(usrs, t, "age", Draw(c + 1), Draw(c + 2)),
              calls |-> c + 3, counts |-> 1, aggs |-> 1, scans |-> 0]
        ELSE IF Under03(Draw(c + 1)) /\ Len(Sample(usrs, Draw(c + 2))) > 0
        THEN [filter |-> PercentileFilter(usrs, t, "salary", Draw(c + 2), Draw(c + 3)),
              calls |-> c + 4, counts |-> 1, aggs |-> 1, scans |-> 0]
        ELSE FromCategorical(usrs, t, c + 2)

\* mutant: match-all only for targetCount > totalUsers
GeneratePreciseUserFilter_Strict(usrs, t, prev, c) ==
    LET totalUsers == Len(usrs)
    IN  IF t > totalUsers \/ totalUsers = 0
        THEN [filter |-> MatchAll, calls |-> c, counts |-> 1, aggs |-> 0, scans |-> 0]
        ELSE IF Under03(Draw(c)) /\ Len(Sample(usrs, Draw(c + 1))) > 0
        THEN [filter |-> PercentileFilter(usrs, t, "age", Draw(c + 1), Draw(c + 2)),
              calls |-> c + 3, counts |-> 1, aggs |-> 1, scans |-> 0]
        ELSE IF Under03(Draw(c + 1)) /\ Len(Sample(usrs, Draw(c + 2))) > 0
        THEN [filter |-> PercentileFilter(usrs, t, "salary", Draw(c + 2), Draw(c + 3)),
              calls |-> c + 4, counts |-> 1, aggs |-> 1, scans |-> 0]
        ELSE FromCategorical(usrs, t, c + 2)

\* generatePreciseUserFilter(db, targetCount, previousAttempts), started after
\* c draws: the filter, the draws consumed, and the queries it issued (counts:
\* countDocuments, aggs: aggregate; scans: the aggregates of a strategy that
\* read the whole collection, the $group of strategy 3 having no $sample stage)
GeneratePreciseUserFilter(usrs, t, prev, c) ==
    LET totalUsers == Len(usrs)
    IN  IF t >= totalUsers
        THEN [filter |-> MatchAll, calls |-> c, counts |-> 1, aggs |-> 0, scans |-> 0]
        ELSE IF Under03(Draw(c)) /\ Len(Sample(usrs, Draw(c + 1))) > 0
        THEN [filter |-> PercentileFilter(usrs, t, "age", Draw(c + 1), Draw(c + 2)),
              calls |-> c + 3, counts |-> 1, aggs |-> 1, scans |-> 0]
        ELSE IF Under03(Draw(c + 1)) /\ Len(Sample(usrs, Draw(c + 2))) > 0
        THEN [filter |-> PercentileFilter(usrs, t, "salary", Draw(c + 2), Draw(c + 3)),
              calls |-> c + 4, counts |-> 1, aggs |-> 1, scans |-> 0]
        ELSE FromCategorical(usrs, t, c + 2)

----------------------------------------------------------------------------
(* The documents collection and getSingleColumnCursorPagination *)

\* the JavaScript value undefined: an omitted argument or a missing field
Undefined == [defined |-> FALSE, v |-> 0]

Value(n) == [defined |-> TRUE, v |-> n]

\* document i of the pool: _id (an ObjectId), user, and createdAt, which two
\* documents can share and every third document lacks
DocAt(i) ==
    [ id        |-> ((i * 3) % 7) + 1,
      user      |-> (i % 2) + 1,
      createdAt |-> IF i % 3 = 0 THEN Undefined ELSE Value((i % 2) + 1) ]

\* ObjectId.toString(): the hexadecimal digits of the id (2 instead of 24)
ToHexString(id) == <<id \div 16, id % 16>>

\* new ObjectId(lastId)
ParseObjectId(str) == str[1] * 16 + str[2]

\* documents[k][sortField]
FieldOf(d, field) == IF field = "_id" THEN Value(d.id) ELSE d.createdAt

\* operator: $gt for ascending, $lt for descending
Operator(dir, a, b) == IF dir = 1 THEN a > b ELSE a < b

\* mutant: the tie-break compares with $gte / $lte
EqualOperator_OrEqual(dir, a, b) == IF dir = 1 THEN a >= b ELSE a <= b

\* equalOperator: $gt for ascending, $lt for descending
EqualOperator(dir, a, b) == IF dir = 1 THEN a > b ELSE a < b

\* the query of a page request; $gt / $lt never match a document without the field
QueryMatches(d, ids, field, dir, lastV, lastI) ==
    /\ d.user \in ids
    /\ IF lastV # Undefined /\ lastI # <<>>
       THEN IF field = "_id"
            THEN Operator(dir, d.id, ParseObjectId(lastI))
            ELSE \/ /\ FieldOf(d, field).defined
                    /\ Operator(dir, FieldOf(d, field).v, lastV.v)
                 \/ /\ FieldOf(d, field) = lastV
                    /\ EqualOperator(dir, d.id, ParseObjectId(lastI))
       ELSE TRUE

\* a sorts before b under { [sortField]: dir, _id: dir }; a missing field sorts
\* as null, below every value
SortsBefore(a, b, field, dir) ==
    LET ka == IF FieldOf(a, field).defined THEN FieldOf(a, field).v ELSE -1
        kb == IF FieldOf(b, field).defined THEN FieldOf(b, field).v ELSE -1
    IN  IF ka # kb
        THEN (IF dir = 1 THEN ka < kb ELSE ka > kb)
        ELSE (IF dir = 1 THEN a.id < b.id ELSE a.id > b.id)

RECURSIVE SortDocs(_, _, _)
SortDocs(S, field, dir) ==
    IF S = {} THEN <<>>
    ELSE LET m == CHOOSE d \in S : \A e \in S \ {d} : SortsBefore(d, e, field, dir)
         IN  <<m>> \o SortDocs(S \ {m}, field, dir)

\* .find(query).sort(sortObj).hint(indexHint).limit(limit).toArray()
FindSortLimit(coll, ids, field, dir, lim, lastV, lastI) ==
    LET matching == { coll[k] : k \in { j \in DOMAIN coll :
                          QueryMatches(coll[j], ids, field, dir, lastV, lastI) } }
        sorted == SortDocs(matching, field, dir)
    IN  SubSeq(sorted, 1, Min(lim, Len(sorted)))

\* mutant: hasMore reports whether a further matching document exists
GetSingleColumnCursorPagination_LookAhead(coll, ids, field, dir, lim, lastV, lastI) ==
    LET documents == FindSortLimit(coll, ids, field, dir, lim, lastV, lastI)
    IN  [ documents  |-> documents,
          nextCursor |-> IF Len(documents) > 0
                         THEN <<[ value |-> FieldOf(documents[Len(documents)], field),
                                  id    |-> ToHexString(documents[Len(documents)].id) ]>>
                         ELSE <<>>,
          hasMore    |-> Len(FindSortLimit(coll, ids, field, dir, lim + 1, lastV, lastI)) > lim ]

\* mutant: the cursor is taken from the first document of the page
GetSingleColumnCursorPagination_FirstRow(coll, ids, field, dir, lim, lastV, lastI) ==
    LET documents == FindSortLimit(coll, ids, field, dir, lim, lastV, lastI)
    IN  [ documents  |-> documents,
          nextCursor |-> IF Len(documents) > 0
                         THEN <<[ value |-> FieldOf(documents[1], field),
                                  id    |-> ToHexString(documents[1].id) ]>>
                         ELSE <<>>,
          hasMore    |-> Len(documents) = lim ]

\* getSingleColumnCursorPagination(documentsCollection, userIds, sortField,
\* sortDirection, limit, lastValue, lastId)
GetSingleColumnCursorPagination(coll, ids, field, dir, lim, lastV, lastI) ==
    LET documents == FindSortLimit(coll, ids, field, dir, lim, lastV, lastI)
    IN  [ documents  |-> documents,
          nextCursor |-> IF Len(documents) > 0
                         THEN <<[ value |-> FieldOf(documents[Len(documents)], field),
                                  id    |-> ToHexString(documents[Len(documents)].id) ]>>
                         ELSE <<>>,
          hasMore    |-> Len(documents) = lim ]

----------------------------------------------------------------------------
(* analyzeUserDistribution: the five aggregates and the cached snapshot *)

Callers == {1, 2}

Pipelines == {"basicStats", "status", "department", "location", "emailDomain"}

RECURSIVE Gcd(_, _)
Gcd(a, b) == IF b = 0 THEN a ELSE Gcd(b, a % b)

\* { $avg }: the exact quotient sum / n, kept as a reduced fraction
Avg(sum, n) == [num |-> sum \div Gcd(sum, n), den |-> n \div Gcd(sum, n)]

RECURSIVE SumOf(_)
SumOf(s) == IF s = <<>> THEN 0 ELSE Head(s) + SumOf(Tail(s))

\* { $min } and { $max } over a non-empty sequence of numbers
MinOf(s) == CHOOSE x \in { s[k] : k \in DOMAIN s } : \A k \in DOMAIN s : x <= s[k]

MaxOf(s) == CHOOSE x \in { s[k] : k \in DOMAIN s } : \A k \in DOMAIN s : x >= s[k]

\* "$field" of every document
Project(usrs, field) == [i \in DOMAIN usrs |-> usrs[i][field]]

\* { $arrayElemAt: [{ $split: ["$email", "@"] }, 1] } of every document
DomainOf(usrs) == [i \in DOMAIN usrs |-> usrs[i].email[2]]

\* basicStatsPipeline: one group for the whole collection, none when it is empty
BasicStatsPipeline(usrs) ==
    IF usrs = <<>> THEN <<>>
    ELSE <<[ totalUsers   |-> Len(usrs),
             minAge       |-> MinOf(Project(usrs, "age")),
             maxAge       |-> MaxOf(Project(usrs, "age")),
             avgAge       |-> Avg(SumOf(Project(usrs, "age")), Len(usrs)),
             minSalary    |-> MinOf(Project(usrs, "salary")),
             maxSalary    |-> MaxOf(Project(usrs, "salary")),
             avgSalary    |-> Avg(SumOf(Project(usrs, "salary")), Len(usrs)),
             managerCount |-> Cardinality({ i \in DOMAIN usrs : usrs[i].isManager }),
             minJoinDate  |-> MinOf(Project(usrs, "joinDate")),
             maxJoinDate  |-> MaxOf(Project(usrs, "joinDate")) ]>>

FirstPos(keys, v) ==
    CHOOSE k \in DOMAIN keys : keys[k] = v /\ \A j \in 1..(k - 1) : keys[j] # v

RECURSIVE GroupInOrder(_, _, _)
\* the groups of S in the order the database emits them, which $group leaves
\* open: by first occurrence (o = 1) or the reverse (o = -1)
GroupInOrder(keys, S, o) ==
    IF S = {} THEN <<>>
    ELSE LET m == CHOOSE v \in S : \A w \in S :
                      o * FirstPos(keys, v) <= o * FirstPos(keys, w)
         IN  <<[ id    |-> m,
                 count |-> Cardinality({ k \in DOMAIN keys : keys[k] = m }) ]>>
                 \o GroupInOrder(keys, S \ {m}, o)

\* [{ $group: { _id: "$key", count: { $sum: 1 } } }]
GroupPipeline(keys, o) == GroupInOrder(keys, { keys[k] : k \in DOMAIN keys }, o)

\* usersCollection.aggregate(pipeline).toArray()
Aggregate(usrs, q, o) ==
    CASE q = "basicStats"  -> BasicStatsPipeline(usrs)
      [] q = "emailDomain" -> GroupPipeline(DomainOf(usrs), o)
      [] OTHER             -> GroupPipeline(Project(usrs, q), o)

\* results.forEach(item => counts[item._id] = item.count)
ToCounts(arr) ==
    [ v \in { arr[k].id : k \in DOMAIN arr } |->
        arr[CHOOSE k \in DOMAIN arr :
                /\ arr[k].id = v
                /\ \A j \in DOMAIN arr : arr[j].id = v => j <= k].count ]

\* lines 115-129: the DataDistribution built from the five results
DataDistribution(res) ==
    LET basicStats == res["basicStats"][1]
    IN  [ totalUsers        |-> basicStats.totalUsers,
          ageStats          |-> [ min |-> basicStats.minAge, max |-> basicStats.maxAge,
                                  avg |-> basicStats.avgAge ],
          salaryStats       |-> [ min |-> basicStats.minSalary,
                                  max |-> basicStats.maxSalary,
                                  avg |-> basicStats.avgSalary ],
          statusCounts      |-> ToCounts(res["status"]),
          departmentCounts  |-> ToCounts(res["department"]),
          locationCounts    |-> ToCounts(res["location"]),
          managerCount      |-> basicStats.managerCount,
          joinDateStats     |-> [ min |-> basicStats.minJoinDate,
                                  max |-> basicStats.maxJoinDate ],
          emailDomainCounts |-> ToCounts(res["emailDomain"]) ]

\* a caller that has not called yet.  pending: aggregates not yet resolved;
\* results: the resolved arrays; returned: <<>> or the returned snapshot;
\* issued: aggregates issued by the call; order: the group order the database
\* uses for this call; seedsAt, afterSuccess: the value of seeds and whether a
\* call had already succeeded when the call started
IdleCaller ==
    [ pc |-> "idle", pending |-> {}, results |-> [q \in Pipelines |-> <<>>],
      returned |-> <<>>, issued |-> 0, order |-> 1, seedsAt |-> 0,
      afterSuccess |-> FALSE ]

ProfileIdle ==
    /\ cachedDistribution = <<>>
    /\ callers = [p \in Callers |-> IdleCaller]
    /\ ncalls = 0 /\ seeds = 0 /\ first = <<>>

----------------------------------------------------------------------------
(* generateOptimalUserFilter *)

NoResult == [filter |-> MatchAll, count |-> -1, targetCount |-> -1]

\* mutant: bestDistance compared as a plain number, the initial value never beaten
LessThanBest_NoInfinity(d, best) == best # Infinity /\ d < best

\* mutant: keeps the worst attempt
LessThanBest_Greater(d, best) == best = Infinity \/ d > best

\* mutant: distance <= bestDistance, the latest of equal attempts wins
LessThanBest_OrEqual(d, best) == best = Infinity \/ d <= best

\* distance < bestDistance, bestDistance possibly Infinity
LessThanBest(d, best) == best = Infinity \/ d < best

\* mutant: the margin is applied on both sides of targetCount
Distance_Symmetric(cnt, minCount, maxCount) ==
    IF cnt < minCount - (maxCount - minCount) THEN minCount - cnt
    ELSE IF cnt > maxCount THEN cnt - maxCount
    ELSE 0

\* distance of a count from [minCount, maxCount]
Distance(cnt, minCount, maxCount) ==
    IF cnt < minCount THEN minCount - cnt
    ELSE IF cnt > maxCount THEN cnt - maxCount
    ELSE 0

NoPage == [documents |-> <<>>, nextCursor |-> <<>>, hasMore |-> FALSE]

MainIdle == filtersData = <<>>

GenIdle == kinds = {}

\* db.ts as loaded: client and db are not yet assigned
ConnIdle ==
    /\ client = 0 /\ db = 0 /\ created = 0 /\ handle = 0
    /\ lastOp = "none" /\ connCalls = 0

BenchIdle ==
    /\ oids = <<>> /\ actualCount = 0 /\ method = 1 /\ iteration = 0
    /\ nonPaginatedResults = <<>> /\ paginatedResults = <<>>
    /\ bpc = "idle"

OtherIdle == MainIdle /\ GenIdle /\ ConnIdle /\ BenchIdle

PageIdle ==
    /\ docs = <<>> /\ userIds = {} /\ sortField = "_id" /\ sortDirection = 1
    /\ limit = 1 /\ lastValue = Undefined /\ lastId = <<>> /\ page = NoPage
    /\ collected = <<>> /\ requests = 0 /\ ppc = "idle"

Init ==
    /\ users \in Collections
    /\ targetCount \in 0..(MaxUsers + 1)
    /\ seed \in 0..(RandDen - 1)
    /\ step \in 0..(RandDen - 1)
    /\ dbOrder \in {1, -1}
    /\ calls = 0
    /\ pc = "start"
    /\ attempt = 0
    /\ filter = MatchAll /\ count = 0 /\ distance = 0
    /\ bestFilter = MatchAll /\ bestCount = 0 /\ bestDistance = Infinity
    /\ previousAttempts = <<>>
    /\ result = NoResult
    /\ countQueries = 0 /\ aggQueries = 0 /\ scanQueries = 0
    /\ thrown = "none"
    /\ PageIdle
    /\ ProfileIdle
    /\ OtherIdle

\* lines 286-294: locals of a fresh run
Start ==
    /\ pc = "start"
    /\ bestFilter' = MatchAll
    /\ bestCount' = 0
    /\ bestDistance' = Infinity
    /\ previousAttempts' = <<>>
    /\ attempt' = 0
    /\ pc' = "generate"
    /\ UNCHANGED <<users, targetCount, seed, step, dbOrder, calls, filter, count,
                   distance, result, countQueries, aggQueries, scanQueries, thrown,
                   pageVars, profVars,
                   otherVars>>

\* line 298: await generatePreciseUserFilter(db, targetCount, previousAttempts)
Generate ==
    /\ pc = "generate"
    /\ attempt < MaxAttempts
    /\ LET g == GeneratePreciseUserFilter(users, targetCount, previousAttempts, calls)
       IN  /\ filter' = g.filter
           /\ calls' = g.calls
           /\ countQueries' = countQueries + g.counts
           /\ aggQueries' = aggQueries + g.aggs
           /\ scanQueries' = scanQueries + g.scans
    /\ pc' = "count"
    /\ UNCHANGED <<users, targetCount, seed, step, dbOrder, attempt, count, distance,
                   bestFilter, bestCount, bestDistance, previousAttempts, result,
                   thrown, pageVars, profVars,
                   otherVars>>

\* mutant: an attempt inside the range does not end the loop
Count_NoEarlyReturn ==
    /\ pc = "count"
    /\ LET cnt == CountDocuments(users, filter)
           marginOfError == MarginOfError(targetCount)
           minCount == targetCount
           maxCount == targetCount + marginOfError
           dist == Distance(cnt, minCount, maxCount)
       IN  /\ count' = cnt
           /\ countQueries' = countQueries + 1
           /\ previousAttempts' = Append(previousAttempts, [filter |-> filter, count |-> cnt])
           /\ distance' = dist
           /\ IF dist = 0
              THEN /\ bestFilter' = filter
                   /\ bestCount' = cnt
                   /\ bestDistance' = dist
                   /\ attempt' = attempt + 1
                   /\ pc' = "generate"
                   /\ UNCHANGED result
              ELSE /\ IF LessThanBest(dist, bestDistance)
                      THEN /\ bestFilter' = filter
                           /\ bestCount' = cnt
                           /\ bestDistance' = dist
                      ELSE UNCHANGED <<bestFilter, bestCount, bestDistance>>
                   /\ attempt' = attempt + 1
                   /\ pc' = "generate"
                   /\ UNCHANGED result
    /\ UNCHANGED <<users, targetCount, seed, step, dbOrder, calls, filter, aggQueries,
                   scanQueries, thrown, pageVars, profVars,
                   otherVars>>

\* lines 299-323: count the candidate, accept it or keep the best
Count ==
    /\ pc = "count"
    /\ LET cnt == CountDocuments(users, filter)
           marginOfError == MarginOfError(targetCount)
           minCount == targetCount
           maxCount == targetCount + marginOfError
           dist == Distance(cnt, minCount, maxCount)
       IN  /\ count' = cnt
           /\ countQueries' = countQueries + 1
           /\ previousAttempts' = Append(previousAttempts, [filter |-> filter, count |-> cnt])
           /\ distance' = dist
           /\ IF dist = 0
              THEN /\ result' = [filter |-> filter, count |-> cnt, targetCount |-> targetCount]
                   /\ pc' = "done"
                   /\ UNCHANGED <<bestFilter, bestCount, bestDistance, attempt>>
              ELSE /\ IF LessThanBest(dist, bestDistance)
                      THEN /\ bestFilter' = filter
                           /\ bestCount' = cnt
                           /\ bestDistance' = dist
                      ELSE UNCHANGED <<bestFilter, bestCount, bestDistance>>
                   /\ attempt' = attempt + 1
                   /\ pc' = "generate"
                   /\ UNCHANGED result
    /\ UNCHANGED <<users, targetCount, seed, step, dbOrder, calls, filter, aggQueries,
                   scanQueries, thrown, pageVars, profVars,
                   otherVars>>

\* mutant: an exhausted budget is reported as a failure
ReturnBest_NoResult ==
    /\ pc = "generate"
    /\ ~(attempt < MaxAttempts)
    /\ result' = NoResult
    /\ pc' = "done"
    /\ UNCHANGED <<users, targetCount, seed, step, dbOrder, calls, attempt, filter,
                   count, distance, bestFilter, bestCount, bestDistance,
                   previousAttempts, countQueries, aggQueries, scanQueries, thrown,
                   pageVars, profVars,
                   otherVars>>

\* lines 326-331: the budget is used up, return the best attempt
ReturnBest ==
    /\ pc = "generate"
    /\ ~(attempt < MaxAttempts)
    /\ result' = [filter |-> bestFilter, count |-> bestCount, targetCount |-> targetCount]
    /\ pc' = "done"
    /\ UNCHANGED <<users, targetCount, seed, step, dbOrder, calls, attempt, filter,
                   count, distance, bestFilter, bestCount, bestDistance,
                   previousAttempts, countQueries, aggQueries, scanQueries, thrown,
                   pageVars, profVars,
                   otherVars>>

Next == Start \/ Generate \/ Count \/ ReturnBest

Spec == Init /\ [][Next]_vars

\* every database call resolves: an enabled step of the run is eventually
\* taken.  Runs are followed to their end for the streams with seed, step <= 1
FairInit == Init /\ dbOrder = 1 /\ seed \in {0, 1} /\ step \in {0, 1}

FairSpec == FairInit /\ [][Next]_vars /\ WF_vars(Next)

----------------------------------------------------------------------------
(* Runs in which a database call rejects *)

\* line 298 with a rejecting query inside generatePreciseUserFilter:
\* countDocuments({}) (line 142), or the aggregate of the strategy taken
\* (lines 154-157, 180-183, 216-219); nothing catches it, the run rejects
GenerateFails ==
    /\ pc = "generate"
    /\ attempt < MaxAttempts
    /\ LET g == GeneratePreciseUserFilter(users, targetCount, previousAttempts, calls)
       IN  \/ /\ thrown' = "countDocuments"
              /\ countQueries' = countQueries + 1
              /\ UNCHANGED <<calls, aggQueries, scanQueries>>
           \/ /\ g.aggs > 0
              /\ thrown' = "aggregate"
              /\ countQueries' = countQueries + g.counts
              /\ aggQueries' = aggQueries + g.aggs
              /\ scanQueries' = scanQueries + g.scans
              /\ calls' = IF g.filter.kind = "range" THEN g.calls - 1 ELSE g.calls
    /\ pc' = "failed"
    /\ UNCHANGED <<users, targetCount, seed, step, dbOrder, attempt, filter, count,
                   distance, bestFilter, bestCount, bestDistance, previousAttempts,
                   result, pageVars, profVars,
                   otherVars>>

\* mutant: a rejected count is swallowed and the loop goes on
CountFails_Swallowed ==
    /\ pc = "count"
    /\ thrown' = "countDocuments"
    /\ countQueries' = countQueries + 1
    /\ attempt' = attempt + 1
    /\ pc' = "generate"
    /\ UNCHANGED <<users, targetCount, seed, step, dbOrder, calls, filter, count,
                   distance, bestFilter, bestCount, bestDistance, previousAttempts,
                   result, aggQueries, scanQueries, pageVars, profVars,
                   otherVars>>

\* line 299 with a rejecting countDocuments(filter): the run rejects before
\* the attempt is recorded
CountFails ==
    /\ pc = "count"
    /\ thrown' = "countDocuments"
    /\ countQueries' = countQueries + 1
    /\ pc' = "failed"
    /\ UNCHANGED <<users, targetCount, seed, step, dbOrder, calls, attempt, filter,
                   count, distance, bestFilter, bestCount, bestDistance,
                   previousAttempts, result, aggQueries, scanQueries, pageVars,
                   profVars, otherVars>>

FailNext == Next \/ GenerateFails \/ CountFails

FailSpec == Init /\ [][FailNext]_vars

----------------------------------------------------------------------------
(* generatePreciseUserFilter called on its own, for every stream of draws *)

\* values of the previousAttempts argument
Histories ==
    { <<>>,
      <<[filter |-> MatchAll, count |-> 0]>>,
      <<[filter |-> EqFilter("status", "active"), count |-> 1],
        [filter |-> RangeFilter("age", 18, 80), count |-> MaxUsers]>> }

GenInit ==
    /\ users \in Collections
    /\ targetCount \in 0..(MaxUsers + 1)
    /\ dbOrder \in {1, -1}
    /\ previousAttempts \in Histories
    /\ seed = 0 /\ step = 0
    /\ calls = 0 /\ pc = "propose" /\ attempt = 0
    /\ filter = MatchAll /\ count = 0 /\ distance = 0
    /\ bestFilter = MatchAll /\ bestCount = 0 /\ bestDistance = Infinity
    /\ result = NoResult
    /\ countQueries = 0 /\ aggQueries = 0 /\ scanQueries = 0
    /\ thrown = "none"
    /\ PageIdle
    /\ ProfileIdle
    /\ OtherIdle

\* one call generatePreciseUserFilter(db, targetCount, previousAttempts) with
\* the draws of the current stream
Propose ==
    /\ pc = "propose"
    /\ LET g == GeneratePreciseUserFilter(users, targetCount, previousAttempts, 0)
       IN  /\ filter' = g.filter
           /\ calls' = g.calls
           /\ countQueries' = g.counts
           /\ aggQueries' = g.aggs
           /\ scanQueries' = g.scans
           /\ kinds' = kinds \cup {g.filter.kind}
    /\ pc' = "proposed"
    /\ UNCHANGED <<users, targetCount, seed, step, dbOrder, attempt, count, distance,
                   bestFilter, bestCount, bestDistance, previousAttempts, result,
                   thrown, pageVars, profVars, mainVars, connVars, benchVars>>

\* the next stream of draws (Math.random and $sample are not under the
\* caller's control: every stream is a possible one)
NextStream ==
    /\ pc = "proposed"
    /\ IF step < RandDen - 1
       THEN seed' = seed /\ step' = step + 1 /\ pc' = "propose"
       ELSE IF seed < RandDen - 1
       THEN seed' = seed + 1 /\ step' = 0 /\ pc' = "propose"
       ELSE UNCHANGED <<seed, step>> /\ pc' = "swept"
    /\ calls' = 0
    /\ UNCHANGED <<users, targetCount, dbOrder, attempt, filter, count, distance,
                   bestFilter, bestCount, bestDistance, previousAttempts, result,
                   countQueries, aggQueries, scanQueries, thrown, pageVars,
                   profVars, otherVars>>

GenNext == Propose \/ NextStream

GenSpec == GenInit /\ [][GenNext]_vars

----------------------------------------------------------------------------
(* Properties of generateOptimalUserFilter *)

\* the acceptable range as the specification states it
InRange(c) == c >= targetCount /\ c <= targetCount + ((targetCount + 9) \div 10)

\* distance of the i-th attempt's count from the acceptable range
AttemptDistance(i) ==
    LET c == previousAttempts[i].count
        hi == targetCount + ((targetCount + 9) \div 10)
    IN  IF InRange(c) THEN 0 ELSE IF c < targetCount THEN targetCount - c ELSE c - hi

\* the earliest attempt of minimal distance
FirstBest ==
    CHOOSE i \in DOMAIN previousAttempts :
        /\ \A j \in DOMAIN previousAttempts : AttemptDistance(i) <= AttemptDistance(j)
        /\ \A j \in 1..(i - 1) : AttemptDistance(j) > AttemptDistance(i)

NoneInRange == \A i \in DOMAIN previousAttempts : ~InRange(previousAttempts[i].count)

\* C1: for targetCount < totalCount the returned count is inside
\* [targetCount, targetCount + ceil(targetCount * 0.1)], or exactly 10 attempts
\* were made and the returned candidate has the least distance among them
C1_InRangeOrBestOfTen ==
    (pc = "done" /\ targetCount < Len(users)) =>
        \/ InRange(result.count)
        \/ /\ Len(previousAttempts) = 10
           /\ \E i \in DOMAIN previousAttempts :
                 /\ previousAttempts[i] = [filter |-> result.filter, count |-> result.count]
                 /\ \A j \in DOMAIN previousAttempts :
                       AttemptDistance(i) <= AttemptDistance(j)

C1_Witness ==
    /\ pc = "done" /\ targetCount < Len(users)
    /\ Len(previousAttempts) = 10
    /\ ~InRange(result.count)
    /\ \E j \in DOMAIN previousAttempts :
          AttemptDistance(j) > AttemptDistance(FirstBest)

\* C2: for targetCount >= totalCount (also strictly greater) the run returns
\* the match-all predicate with count equal to totalCount
C2_MatchAllWhenTargetNotBelowTotal ==
    (pc = "done" /\ targetCount >= Len(users)) =>
        (result.filter = MatchAll /\ result.count = Len(users))

C2_Witness ==
    pc = "done" /\ targetCount > Len(users) /\ Len(users) > 0 /\ result.filter = MatchAll

\* C3 (as claimed): when targetCount >= totalCount the run issues no count
\* query and uses none of the attempt budget
C3_NoQueryWhenTargetNotBelowTotal ==
    (targetCount >= Len(users)) => (countQueries = 0 /\ Len(previousAttempts) = 0)

\* C4: an attempt whose count lies in the acceptable range ends the run: it is
\* the last attempt, it is the returned candidate, and no candidate generation
\* or count query follows it
C4_AcceptEndsRun ==
    \A i \in DOMAIN previousAttempts :
        InRange(previousAttempts[i].count) =>
            /\ i = Len(previousAttempts)
            /\ pc = "done"
            /\ result = [filter |-> previousAttempts[i].filter,
                         count |-> previousAttempts[i].count,
                         targetCount |-> targetCount]
            /\ countQueries = 2 * i

C4_Witness ==
    /\ pc = "done" /\ targetCount < Len(users)
    /\ Len(previousAttempts) > 1 /\ Len(previousAttempts) < 10
    /\ InRange(previousAttempts[Len(previousAttempts)].count)

\* C5: while the loop runs, the retained best candidate is the attempt of least
\* distance so far, the earliest one among equals
C5_BestIsFirstMinimum ==
    (previousAttempts # <<>> /\ NoneInRange) =>
        /\ bestFilter = previousAttempts[FirstBest].filter
        /\ bestCount = previousAttempts[FirstBest].count
        /\ bestDistance = AttemptDistance(FirstBest)

C5_Witness ==
    /\ pc = "generate" /\ NoneInRange
    /\ \E i, j \in DOMAIN previousAttempts :
          /\ i = FirstBest /\ i < j
          /\ AttemptDistance(i) = AttemptDistance(j)
          /\ previousAttempts[i].filter # previousAttempts[j].filter
          /\ bestFilter = previousAttempts[i].filter

\* C6: when all 10 attempts are outside the range the run still returns a
\* result, carrying the best candidate found
C6_ExhaustionReturnsBest ==
    (pc = "done" /\ Len(previousAttempts) = 10 /\ NoneInRange) =>
        /\ result # NoResult
        /\ result = [filter |-> bestFilter, count |-> bestCount, targetCount |-> targetCount]
        /\ \E i \in DOMAIN previousAttempts :
              previousAttempts[i] = [filter |-> result.filter, count |-> result.count]

C6_Witness ==
    pc = "done" /\ Len(previousAttempts) = 10 /\ NoneInRange /\ result.count > 0

\* C7: the distance of an observed count c is 0 inside
\* [targetCount, targetCount + ceil(targetCount / 10)], targetCount - c below
\* it and c - (targetCount + ceil(targetCount / 10)) above it; every count
\* below targetCount has a positive distance
C7_DistanceFromOneSidedRange ==
    previousAttempts # <<>> =>
        LET c == previousAttempts[Len(previousAttempts)].count
            hi == targetCount + ((targetCount + 9) \div 10)
        IN  /\ (c >= targetCount /\ c <= hi) => distance = 0
            /\ c < targetCount => (distance = targetCount - c /\ distance > 0)
            /\ c > hi => distance = c - hi

C7_Witness ==
    /\ previousAttempts # <<>> /\ targetCount < Len(users)
    /\ previousAttempts[Len(previousAttempts)].count < targetCount
    /\ distance = targetCount - count /\ distance > 0

\* C8: every run ends, and never makes more than 10 attempts (candidate count
\* queries)
C8_TerminatesWithinTenAttempts ==
    /\ [](Len(previousAttempts) <= 10 /\ attempt <= 10)
    /\ <>(pc = "done")

C8_Witness ==
    pc = "done" /\ Len(previousAttempts) = 10 /\ attempt = 10

----------------------------------------------------------------------------
(* A chain of page requests: first without a cursor, then with nextCursor *)

RECURSIVE DocsOfSet(_, _)
DocsOfSet(S, i) ==
    IF i > MaxDocs THEN <<>>
    ELSE IF i \in S THEN <<DocAt(i)>> \o DocsOfSet(S, i + 1)
    ELSE DocsOfSet(S, i + 1)

DocCollections == { DocsOfSet(S, 1) : S \in SUBSET (1..MaxDocs) }

SynthIdle ==
    /\ users = <<>> /\ targetCount = 0 /\ seed = 0 /\ step = 0 /\ dbOrder = 1
    /\ calls = 0 /\ pc = "idle" /\ attempt = 0
    /\ filter = MatchAll /\ count = 0 /\ distance = 0
    /\ bestFilter = MatchAll /\ bestCount = 0 /\ bestDistance = Infinity
    /\ previousAttempts = <<>> /\ result = NoResult
    /\ countQueries = 0 /\ aggQueries = 0 /\ scanQueries = 0
    /\ thrown = "none"

PageInit ==
    /\ docs \in DocCollections
    /\ userIds \in SUBSET {1, 2}
    /\ sortField \in {"_id", "createdAt"}
    /\ sortDirection \in {1, -1}
    /\ limit \in 1..MaxLimit
    /\ lastValue = Undefined /\ lastId = <<>>
    /\ page = NoPage /\ collected = <<>> /\ requests = 0
    /\ ppc = "first"
    /\ SynthIdle
    /\ ProfileIdle
    /\ OtherIdle

\* the first request: lastValue and lastId are omitted
FirstPage ==
    /\ ppc = "first"
    /\ page' = GetSingleColumnCursorPagination(docs, userIds, sortField,
                   sortDirection, limit, Undefined, <<>>)
    /\ collected' = page'.documents
    /\ requests' = 1
    /\ ppc' = IF page'.hasMore THEN "more" ELSE "end"
    /\ UNCHANGED <<docs, userIds, sortField, sortDirection, limit, lastValue, lastId,
                   synthVars, profVars,
                   otherVars>>

\* a further request with nextCursor.value and nextCursor._id of the last page
NextPage ==
    /\ ppc = "more"
    /\ requests < MaxRequests
    /\ page.nextCursor # <<>>
    /\ lastValue' = page.nextCursor[1].value
    /\ lastId' = page.nextCursor[1].id
    /\ page' = GetSingleColumnCursorPagination(docs, userIds, sortField,
                   sortDirection, limit, lastValue', lastId')
    /\ collected' = collected \o page'.documents
    /\ requests' = requests + 1
    /\ ppc' = IF page'.hasMore THEN "more" ELSE "end"
    /\ UNCHANGED <<docs, userIds, sortField, sortDirection, limit, synthVars,
                   profVars, otherVars>>

PageNext == FirstPage \/ NextPage

PageSpec == PageInit /\ [][PageNext]_vars

----------------------------------------------------------------------------
(* Callers of analyzeUserDistribution, and seedUsers between their calls *)

ProfileInit ==
    /\ users \in Collections
    /\ dbOrder = 1
    /\ targetCount = 0 /\ seed = 0 /\ step = 0
    /\ calls = 0 /\ pc = "idle" /\ attempt = 0
    /\ filter = MatchAll /\ count = 0 /\ distance = 0
    /\ bestFilter = MatchAll /\ bestCount = 0 /\ bestDistance = Infinity
    /\ previousAttempts = <<>> /\ result = NoResult
    /\ countQueries = 0 /\ aggQueries = 0 /\ scanQueries = 0
    /\ thrown = "none"
    /\ PageIdle
    /\ ProfileIdle
    /\ OtherIdle

ProfileUnchanged ==
    UNCHANGED <<targetCount, seed, step, dbOrder, calls, pc, attempt, filter, count,
                distance, bestFilter, bestCount, bestDistance, previousAttempts,
                result, countQueries, scanQueries, thrown, pageVars, otherVars>>

\* mutant: the cache is not consulted
AnalyzeUserDistribution_NoCache(p) ==
    /\ callers[p].pc # "awaiting"
    /\ ncalls < MaxProfileCalls
    /\ ncalls' = ncalls + 1
    /\ \E o \in {1, -1} :
          callers' = [callers EXCEPT ![p] =
                      [ pc |-> "awaiting", pending |-> Pipelines,
                        results |-> [q \in Pipelines |-> <<>>],
                        returned |-> <<>>, issued |-> Cardinality(Pipelines),
                        order |-> o, seedsAt |-> seeds,
                        afterSuccess |-> first # <<>> ]]
    /\ aggQueries' = aggQueries + Cardinality(Pipelines)
    /\ UNCHANGED <<users, cachedDistribution, seeds, first>>
    /\ ProfileUnchanged

\* lines 23-87: caller p calls analyzeUserDistribution(db); the call returns
\* the cached snapshot, or issues the five aggregates and awaits Promise.all
AnalyzeUserDistribution(p) ==
    /\ callers[p].pc # "awaiting"
    /\ ncalls < MaxProfileCalls
    /\ ncalls' = ncalls + 1
    /\ IF cachedDistribution # <<>>
       THEN /\ callers' = [callers EXCEPT ![p] =
                              [ pc |-> "returned", pending |-> {},
                                results |-> [q \in Pipelines |-> <<>>],
                                returned |-> cachedDistribution, issued |-> 0,
                                order |-> 1, seedsAt |-> seeds,
                                afterSuccess |-> first # <<>> ]]
            /\ UNCHANGED aggQueries
       ELSE /\ \E o \in {1, -1} :
                  callers' = [callers EXCEPT ![p] =
                              [ pc |-> "awaiting", pending |-> Pipelines,
                                results |-> [q \in Pipelines |-> <<>>],
                                returned |-> <<>>, issued |-> Cardinality(Pipelines),
                                order |-> o, seedsAt |-> seeds,
                                afterSuccess |-> first # <<>> ]]
            /\ aggQueries' = aggQueries + Cardinality(Pipelines)
    /\ UNCHANGED <<users, cachedDistribution, seeds, first>>
    /\ ProfileUnchanged

\* one aggregate(...).toArray() of caller p resolves with its result
AggregateResolves(p, q) ==
    /\ callers[p].pc = "awaiting"
    /\ q \in callers[p].pending
    /\ callers' = [callers EXCEPT ![p].pending = @ \ {q},
                                  ![p].results[q] = Aggregate(users, q, callers[p].order)]
    /\ UNCHANGED <<users, aggQueries, cachedDistribution, ncalls, seeds, first>>
    /\ ProfileUnchanged

\* mutant: the call resumes as soon as one aggregate has resolved
PromiseAllResolved_Any(p) == callers[p].pending # Pipelines

\* await Promise.all([...]): every one of the five promises has resolved
PromiseAllResolved(p) == callers[p].pending = {}

\* mutant: a collection of a single user is refused as well
NoBasicStats_OneUser(res) ==
    res["basicStats"] = <<>> \/ res["basicStats"][1].totalUsers <= 1

\* !basicStats, with basicStats = basicStatsResults[0]
NoBasicStats(res) == res["basicStats"] = <<>>

\* lines 89-132: the continuation after Promise.all; it throws on an empty
\* result, otherwise assigns cachedDistribution and returns it
Resume(p) ==
    /\ callers[p].pc = "awaiting"
    /\ PromiseAllResolved(p)
    /\ IF NoBasicStats(callers[p].results)
       THEN /\ callers' = [callers EXCEPT ![p].pc = "failed"]
            /\ UNCHANGED <<cachedDistribution, first>>
       ELSE LET distribution == DataDistribution(callers[p].results)
            IN  /\ cachedDistribution' = <<distribution>>
                /\ callers' = [callers EXCEPT ![p].pc = "returned",
                                              ![p].returned = cachedDistribution']
                /\ first' = IF first = <<>>
                            THEN <<[snapshot |-> distribution, seeds |-> seeds]>>
                            ELSE first
    /\ UNCHANGED <<users, aggQueries, ncalls, seeds>>
    /\ ProfileUnchanged

\* seedUsers(db, totalUsers) with totalUsers > 0, as main calls it: the
\* collection is emptied and filled with generated users; main awaits it, so
\* no call of analyzeUserDistribution is in flight
SeedUsers ==
    /\ seeds < MaxSeeds
    /\ \A p \in Callers : callers[p].pc # "awaiting"
    /\ users' \in Collections \ {<<>>}
    /\ seeds' = seeds + 1
    /\ UNCHANGED <<aggQueries, cachedDistribution, callers, ncalls, first>>
    /\ ProfileUnchanged

ProfileNext ==
    \/ \E p \in Callers : AnalyzeUserDistribution(p)
    \/ \E p \in Callers : \E q \in Pipelines : AggregateResolves(p, q)
    \/ \E p \in Callers : Resume(p)
    \/ SeedUsers

ProfileSpec == ProfileInit /\ [][ProfileNext]_vars

----------------------------------------------------------------------------
(* Properties of the page chain *)

\* every document matching the base predicate, in (sortField, _id) order
Expected ==
    SortDocs({ docs[k] : k \in { j \in DOMAIN docs : docs[j].user \in userIds } },
             sortField, sortDirection)

IsPrefix(s, t) == Len(s) <= Len(t) /\ SubSeq(t, 1, Len(s)) = s

\* C9 (as claimed): the pages of a chain, concatenated, never repeat or skip a
\* matching document, and when hasMore is false they hold every matching
\* document exactly once in (sortField, _id) order
C9_ChainYieldsEveryDocumentOnce ==
    /\ IsPrefix(collected, Expected)
    /\ ppc = "end" => collected = Expected

\* position of the cursor row of the latest request in Expected
CursorPos ==
    CHOOSE k \in DOMAIN Expected : Expected[k].id = ParseObjectId(lastId)

\* C10: when the row the cursor was taken from shares its sort-field value with
\* the next matching document, the page requested with that cursor holds only
\* documents strictly after that row and starts with its immediate successor,
\* ascending and descending; the cursor (value, _id as string) is passed back
\* as returned
C10_TieBreakPageBoundary ==
    (/\ requests >= 2
     /\ lastValue.defined
     /\ CursorPos < Len(Expected)
     /\ FieldOf(Expected[CursorPos + 1], sortField) = lastValue) =>
        /\ page.documents # <<>>
        /\ page.documents[1] = Expected[CursorPos + 1]
        /\ IsPrefix(page.documents, SubSeq(Expected, CursorPos + 1, Len(Expected)))
        /\ lastValue = FieldOf(Expected[CursorPos], sortField)
        /\ collected = SubSeq(Expected, 1, CursorPos) \o page.documents

C10_Witness ==
    /\ requests >= 2 /\ sortField = "createdAt" /\ sortDirection = -1
    /\ lastValue.defined
    /\ CursorPos < Len(Expected)
    /\ FieldOf(Expected[CursorPos + 1], sortField) = lastValue
    /\ page.documents[1] = Expected[CursorPos + 1]

\* the predicate C11 states for the latest request: the base predicate alone
\* for the first request, and for a request made with the cursor of the
\* previous page the base predicate AND (sortField cmp value OR
\* (sortField = value AND _id cmp id))
ClaimedPredicate(d) ==
    /\ d.user \in userIds
    /\ requests >= 2 =>
          \/ /\ FieldOf(d, sortField).defined /\ lastValue.defined
             /\ Operator(sortDirection, FieldOf(d, sortField).v, lastValue.v)
          \/ /\ FieldOf(d, sortField) = lastValue
             /\ Operator(sortDirection, d.id, ParseObjectId(lastId))

\* C11 (as claimed): the query of a request selects exactly the documents of
\* the base predicate when no cursor is supplied, and exactly those of base AND
\* (sortField cmp value OR (sortField = value AND _id cmp id)) when the cursor
\* of the previous page is supplied
C11_EffectivePredicate ==
    requests >= 1 =>
        \A i \in 1..MaxDocs :
            QueryMatches(DocAt(i), userIds, sortField, sortDirection, lastValue, lastId)
                <=> ClaimedPredicate(DocAt(i))

\* C12: hasMore of a page is true exactly when the page holds limit documents,
\* whether or not a further matching document exists
C12_HasMoreIffFullPage ==
    requests >= 1 => (page.hasMore <=> Len(page.documents) = limit)

C12_Witness ==
    /\ requests >= 1 /\ page.hasMore /\ Len(page.documents) = limit
    /\ collected = Expected

\* C13: nextCursor of a page is null exactly when the page is empty; otherwise
\* it holds the sort-field value and the _id (as a string) of the page's last
\* document
C13_NextCursorFromLastDocument ==
    requests >= 1 =>
        /\ page.nextCursor = <<>> <=> page.documents = <<>>
        /\ page.documents # <<>> =>
              LET last == page.documents[Len(page.documents)]
              IN  /\ page.nextCursor[1].value = FieldOf(last, sortField)
                  /\ page.nextCursor[1].id = ToHexString(last.id)
                  /\ ParseObjectId(page.nextCursor[1].id) = last.id

C13_Witness ==
    /\ requests >= 2 /\ Len(page.documents) >= 2 /\ sortField = "createdAt"
    /\ page.nextCursor # <<>>
    /\ page.nextCursor[1].id = ToHexString(page.documents[Len(page.documents)].id)

\* number of requests whose page holds matching documents
FullChain == CeilDiv(Len(Expected), limit)

\* C14 (as claimed): a chain makes at most one request beyond the page holding
\* the last matching document, and that extra request returns an empty page
\* with hasMore false
C14_ChainEndsOneRequestPastLast ==
    /\ requests <= FullChain + 1
    /\ requests = FullChain + 1 => (page.documents = <<>> /\ ~page.hasMore /\ ppc = "end")

----------------------------------------------------------------------------
(* Properties of analyzeUserDistribution *)

\* C15: once a call has succeeded, every call started later returns, while the
\* collection is unmodified, a snapshot equal to the first one and issues no
\* aggregate
C15_LaterCallsServedFromCache ==
    \A p \in Callers :
        (/\ callers[p].afterSuccess
         /\ first # <<>>
         /\ seeds = first[1].seeds) =>
            /\ callers[p].pc = "returned"
            /\ callers[p].returned = <<first[1].snapshot>>
            /\ callers[p].issued = 0

C15_Witness ==
    \E p \in Callers :
        /\ callers[p].afterSuccess /\ callers[p].pc = "returned"
        /\ first # <<>> /\ seeds = first[1].seeds
        /\ callers[p].issued = 0 /\ aggQueries = Cardinality(Pipelines)
        /\ callers[p].returned[1].totalUsers = Len(users)

C18_ConcurrentCallsAgree ==
    /\ \A p \in Callers :
          (callers[p].pc = "returned" /\ callers[p].issued > 0) =>
              /\ callers[p].pending = {}
              /\ callers[p].issued = 5
              /\ callers[p].results["basicStats"] # <<>>
    /\ \A p, q \in Callers :
          (/\ p # q
           /\ callers[p].pc = "returned" /\ ~callers[p].afterSuccess
           /\ callers[q].pc = "returned" /\ ~callers[q].afterSuccess) =>
              /\ callers[p].returned = callers[q].returned
              /\ cachedDistribution = callers[p].returned

C18_Witness ==
    /\ \A p \in Callers :
          /\ callers[p].pc = "returned" /\ ~callers[p].afterSuccess
          /\ callers[p].issued = 5 /\ callers[p].pending = {}
    /\ callers[1].order # callers[2].order
    /\ callers[1].results["department"] # callers[2].results["department"]
    /\ callers[1].returned = callers[2].returned
    /\ cachedDistribution = callers[1].returned

----------------------------------------------------------------------------
(* Properties of generateOptimalUserFilter on an empty collection, of the
   generator's reads, and of rejected queries *)

\* C17 (as claimed): a run against a collection with zero entities does not
\* return a predicate; it ends with a failure delivered to the caller
C17_EmptyCollectionFails ==
    Len(users) = 0 => (pc # "done" /\ result = NoResult)

\* C19 (as claimed): while proposing a candidate no strategy issues a query
\* over the whole live collection, and the proposal changes neither the attempt
\* history nor the cached snapshot
C19_GeneratorReadsOnlySnapshotOrSample ==
    /\ scanQueries = 0
    /\ pc = "count" => Len(previousAttempts) = attempt
    /\ cachedDistribution = <<>>

\* C20: once a count or aggregate query of an attempt has been rejected the run
\* has failed with that rejection: it has returned no result, the failed
\* attempt is not recorded, and no query was issued after the rejected one
C20_QueryFailureReachesCaller ==
    thrown # "none" =>
        /\ pc = "failed"
        /\ result = NoResult
        /\ Len(previousAttempts) = attempt
        /\ countQueries \in {2 * attempt + 1, 2 * attempt + 2}
        /\ thrown = "aggregate" => countQueries = 2 * attempt + 1
        /\ aggQueries <= attempt + 1

C20_Witness ==
    /\ thrown = "aggregate" /\ pc = "failed" /\ result = NoResult
    /\ Len(previousAttempts) >= 2 /\ bestDistance # Infinity
    /\ countQueries = 2 * attempt + 1

----------------------------------------------------------------------------
(* main: the entry of filters.json written for a synthesis result *)

\* mutant: the flag accepts counts within the margin on either side
WriteFilters_EitherSide ==
    /\ pc = "done"
    /\ filtersData' =
          <<[ targetCount   |-> result.targetCount,
              actualCount   |-> result.count,
              marginOfError |-> MarginOfError(result.targetCount),
              withinMargin  |->
                  /\ result.count >= result.targetCount - MarginOfError(result.targetCount)
                  /\ result.count <= result.targetCount + MarginOfError(result.targetCount),
              filter        |-> result.filter ]>>
    /\ pc' = "written"
    /\ UNCHANGED <<users, targetCount, seed, step, dbOrder, calls, attempt, filter,
                   count, distance, bestFilter, bestCount, bestDistance,
                   previousAttempts, result, countQueries, aggQueries, scanQueries,
                   thrown, pageVars, profVars, genVars, connVars, benchVars>>

\* index.ts lines 178-191: filters.map(...) of the result of
\* generateOptimalTestFilters, then writeFile
WriteFilters ==
    /\ pc = "done"
    /\ filtersData' =
          <<[ targetCount   |-> result.targetCount,
              actualCount   |-> result.count,
              marginOfError |-> MarginOfError(result.targetCount),
              withinMargin  |->
                  /\ result.count >= result.targetCount
                  /\ result.count <= result.targetCount + MarginOfError(result.targetCount),
              filter        |-> result.filter ]>>
    /\ pc' = "written"
    /\ UNCHANGED <<users, targetCount, seed, step, dbOrder, calls, attempt, filter,
                   count, distance, bestFilter, bestCount, bestDistance,
                   previousAttempts, result, countQueries, aggQueries, scanQueries,
                   thrown, pageVars, profVars, genVars, connVars, benchVars>>

MainNext == Next \/ WriteFilters

MainSpec == Init /\ [][MainNext]_vars

\* C21: the persisted withinMargin is false exactly when the run returned after
\* using up its 10 attempts and true exactly when it returned from the attempt
\* that had distance 0; the persisted marginOfError is the controller's margin
C21_WithinMarginTellsReturnPath ==
    filtersData # <<>> =>
        /\ ~filtersData[1].withinMargin <=>
              (attempt = 10 /\ Len(previousAttempts) = 10 /\ bestDistance > 0)
        /\ filtersData[1].withinMargin <=>
              (/\ Len(previousAttempts) = attempt + 1
               /\ distance = 0
               /\ previousAttempts[Len(previousAttempts)] =
                      [filter |-> filtersData[1].filter,
                       count |-> filtersData[1].actualCount])
        /\ filtersData[1].marginOfError = (targetCount + 9) \div 10
        /\ filtersData[1].targetCount = targetCount

C21_Witness ==
    /\ filtersData # <<>> /\ ~filtersData[1].withinMargin
    /\ attempt = 10 /\ filtersData[1].actualCount > 0
    /\ filtersData[1].marginOfError > 0

----------------------------------------------------------------------------
(* Properties of generatePreciseUserFilter *)

\* number of users whose field has the value v
ValueCount(field, v) == Cardinality({ i \in DOMAIN users : users[i][field] = v })

RECURSIVE CumulativeCount(_, _, _)
\* users counted by the first k values of vs
CumulativeCount(field, vs, k) ==
    IF k = 0 THEN 0 ELSE CumulativeCount(field, vs, k - 1) + ValueCount(field, vs[k])

Categorical == pc = "proposed" /\ filter.kind \in {"eq", "in"}

C24_ConjunctiveCanBeReturned ==
    (pc = "swept" /\ Len(users) > 0 /\ 5 * targetCount < Len(users)) =>
        "and" \in kinds

C26_ReturnedPairIsAnAttempt ==
    pc = "done" =>
        /\ previousAttempts # <<>>
        /\ \E i \in DOMAIN previousAttempts :
              /\ previousAttempts[i].filter = result.filter
              /\ previousAttempts[i].count = result.count
              /\ result.count = CountDocuments(users, previousAttempts[i].filter)
        /\ attempt = 10 => bestDistance # Infinity

C26_Witness ==
    /\ pc = "done" /\ attempt = 10
    /\ result.filter # MatchAll /\ result.count > 0
    /\ previousAttempts[1].filter # result.filter
    /\ \E i, j \in DOMAIN previousAttempts :
          /\ previousAttempts[i].filter = result.filter
          /\ previousAttempts[j].count # result.count

\* C27: every call of the generator returns a predicate, for every targetCount
\* and every collection
C27_GeneratorReturnsPredicate ==
    pc = "proposed" =>
        /\ filter.kind \in {"all", "range", "eq", "in", "and"}
        /\ filter.kind = "range" => filter.field \in {"age", "salary"}
        /\ filter.kind = "eq" => Len(filter.vals) = 1
        /\ filter.kind = "in" => Len(filter.vals) > 1
        /\ filter.kind = "and" => Len(filter.parts) \in 1..3

C27_Witness ==
    pc = "proposed" /\ Len(users) = 0 /\ targetCount = 0 /\ filter = MatchAll

\* C28: for targetCount < totalCount the predicate of the categorical strategy
\* matches at least targetCount users
C28_CategoricalNeverUndershoots ==
    (Categorical /\ targetCount < Len(users)) =>
        CountDocuments(users, filter) >= targetCount

C28_Witness ==
    /\ Categorical /\ targetCount < Len(users) /\ targetCount > 0
    /\ filter.kind = "in"
    /\ CountDocuments(users, filter) > targetCount

\* C29: the predicate a call returns is the one it returns with an empty
\* history, for the same draws, collection and targetCount
C29_IndependentOfPreviousAttempts ==
    pc = "proposed" =>
        /\ filter = GeneratePreciseUserFilter(users, targetCount, <<>>, 0).filter
        /\ calls = GeneratePreciseUserFilter(users, targetCount, <<>>, 0).calls

C29_Witness ==
    /\ pc = "proposed" /\ Len(previousAttempts) = 2 /\ filter.kind = "range"
    /\ targetCount < Len(users)

----------------------------------------------------------------------------
(* db.ts: connectToMongoDB and closeMongoDB, called one after the other *)

ConnInit ==
    /\ SynthIdle
    /\ PageIdle
    /\ ProfileIdle
    /\ OtherIdle

ConnUnchanged == UNCHANGED <<synthVars, pageVars, profVars, mainVars, genVars, benchVars>>

\* mutant: the handle is not looked up, every call connects
ConnectToMongoDB_NoCache ==
    /\ connCalls < MaxConnCalls
    /\ connCalls' = connCalls + 1
    /\ created < MaxClients
    /\ \E outcome \in {"ok", "connect rejects", "createIndex rejects"} :
          /\ client' = created + 1
          /\ created' = created + 1
          /\ db' = (IF outcome = "connect rejects" THEN db ELSE client')
          /\ handle' = (IF outcome = "ok" THEN db' ELSE 0)
          /\ lastOp' = (IF outcome = "ok" THEN "connect" ELSE "connect failed")
    /\ ConnUnchanged

\* lines 10-21; client.connect() and db.createIndex() resolve or reject
ConnectToMongoDB ==
    /\ connCalls < MaxConnCalls
    /\ connCalls' = connCalls + 1
    /\ IF db # 0
       THEN /\ handle' = db
            /\ lastOp' = "connect"
            /\ UNCHANGED <<client, db, created>>
       ELSE /\ created < MaxClients
            /\ \E outcome \in {"ok", "connect rejects", "createIndex rejects"} :
                  /\ client' = created + 1
                  /\ created' = created + 1
                  /\ db' = (IF outcome = "connect rejects" THEN db ELSE client')
                  /\ handle' = (IF outcome = "ok" THEN db' ELSE 0)
                  /\ lastOp' = (IF outcome = "ok" THEN "connect" ELSE "connect failed")
    /\ ConnUnchanged

\* lines 24-30; client.close() resolves or rejects
CloseMongoDB ==
    /\ connCalls < MaxConnCalls
    /\ connCalls' = connCalls + 1
    /\ handle' = 0
    /\ IF client # 0
       THEN \E outcome \in {"ok", "close rejects"} :
               IF outcome = "ok"
               THEN client' = 0 /\ db' = 0 /\ lastOp' = "close"
               ELSE UNCHANGED <<client, db>> /\ lastOp' = "close failed"
       ELSE UNCHANGED <<client, db>> /\ lastOp' = "close"
    /\ UNCHANGED created
    /\ ConnUnchanged

ConnNext == ConnectToMongoDB \/ CloseMongoDB

ConnSpec == ConnInit /\ [][ConnNext]_vars

\* C30: while a handle is held a connectToMongoDB call returns it and
\* constructs no client; a closeMongoDB call that completes clears client and
\* db, so that the next connect constructs a client never used before; with no
\* client closeMongoDB changes nothing
C30_HandleReusedUntilClosed ==
    [][ connCalls' = connCalls + 1 =>
          /\ (lastOp' = "connect" /\ db # 0) =>
                /\ handle' = db
                /\ UNCHANGED <<client, db, created>>
          /\ (lastOp' = "close" /\ client # 0) => (client' = 0 /\ db' = 0)
          /\ (lastOp' = "connect" /\ db = 0) =>
                /\ created' = created + 1
                /\ client' = created' /\ db' = created' /\ handle' = created'
          /\ (lastOp' = "close" /\ client = 0) => UNCHANGED <<client, db, created>>
      ]_vars

C30_Witness ==
    /\ lastOp = "connect" /\ connCalls >= 5
    /\ created = 2 /\ client = 2 /\ db = 2 /\ handle = 2

----------------------------------------------------------------------------
(* The benchmark: the query methods and the loop of main that compares them *)

RECURSIVE IdsOfSet(_, _)
\* the _id of the users of SeqOfSet(S, i), in the same order
IdsOfSet(S, i) ==
    IF i > MaxUsers THEN <<>>
    ELSE IF i \in S THEN <<i>> \o IdsOfSet(S, i + 1)
    ELSE IdsOfSet(S, i + 1)

\* filters of each shape that filters.json holds
BenchFilters ==
    { MatchAll,
      RangeFilter("age", 18, 40),
      EqFilter("status", StatusValues[1]),
      InFilter("department", <<DepartmentValues[2], DepartmentValues[3]>>) }

Reverse(s) == [k \in 1..Len(s) |-> s[Len(s) + 1 - k]]

\* the order in which a query without a sort meets the documents of a
\* collection: the server chooses it per query (o = 1 / -1)
Natural(s, o) == IF o = 1 THEN s ELSE Reverse(s)

RECURSIVE UserIdsFrom(_, _)
UserIdsFrom(f, i) ==
    IF i > Len(users) THEN <<>>
    ELSE (IF Matches(users[i], f) THEN <<oids[i]>> ELSE <<>>) \o UserIdsFrom(f, i + 1)

\* usersCollection.find(filter).project({_id: 1}).toArray().map(user => user._id)
FindUserIds(f, o) == Natural(UserIdsFrom(f, 1), o)

\* { user: { $in: ids } } over the documents collection
MatchUserIn(ids, o) ==
    LET Test(d) == \E k \in DOMAIN ids : ids[k] = d.user
    IN  SelectSeq(Natural(docs, o), Test)

RECURSIVE InsertById(_, _)
InsertById(d, s) ==
    IF s = <<>> THEN <<d>>
    ELSE IF d.id <= Head(s).id THEN <<d>> \o s
    ELSE <<Head(s)>> \o InsertById(d, Tail(s))

RECURSIVE SortById(_)
\* { $sort: { _id: 1 } } and .sort({ _id: 1 })
SortById(s) == IF s = <<>> THEN <<>> ELSE InsertById(Head(s), SortById(Tail(s)))

RECURSIVE LookupUnwind(_, _)
\* $lookup from documents (localField _id, foreignField user), $unwind and
\* $replaceRoot: the documents of each matched user, user after user
LookupUnwind(ids, o) ==
    IF ids = <<>> THEN <<>>
    ELSE LET Test(d) == d.user = Head(ids)
         IN  SelectSeq(Natural(docs, o), Test) \o LookupUnwind(Tail(ids), o)

FindWithIn(f, o) == SortById(MatchUserIn(FindUserIds(f, o), o))

AggregationOnDocumentsWithIn(f, o) == SortById(MatchUserIn(FindUserIds(f, o), o))

AggregationOnUsersWithLookup(f, o) == SortById(LookupUnwind(FindUserIds(f, o), o))

\* the same pipeline, read document by document from the cursor
AggregationOnUsersWithLookupStreaming(f, o) ==
    LET cursor == SortById(LookupUnwind(FindUserIds(f, o), o))
    IN  [k \in 1..Len(cursor) |-> cursor[k]]

NonPaginatedMethod(m, f, o) ==
    CASE m = 1 -> FindWithIn(f, o)
      [] m = 2 -> AggregationOnDocumentsWithIn(f, o)
      [] m = 3 -> AggregationOnUsersWithLookup(f, o)
      [] OTHER -> AggregationOnUsersWithLookupStreaming(f, o)

\* .skip(n) and { $skip: n }
Skip(s, n) == SubSeq(s, n + 1, Len(s))

\* cursor.limit(n): limit(0) sets no limit
CursorLimit(s, n) == IF n = 0 THEN s ELSE SubSeq(s, 1, Min(n, Len(s)))

\* { $facet: { data: [$sort, $skip, $limit], total: [$count] } }; the server
\* rejects a pipeline whose $limit is not positive
Facet(s, sk, lim) ==
    IF lim <= 0
    THEN [ok |-> FALSE, data |-> <<>>, total |-> 0]
    ELSE LET documentsTotal == IF s = <<>> THEN <<>> ELSE <<[total |-> Len(s)]>>
         IN  [ok |-> TRUE,
              data |-> SubSeq(Skip(SortById(s), sk), 1,
                              Min(lim, Len(Skip(SortById(s), sk)))),
              total |-> IF documentsTotal = <<>> THEN 0 ELSE documentsTotal[1].total]

FindWithInSkip(f, sk, lim, o) ==
    LET userIds1 == FindUserIds(f, o)
    IN  [ok |-> TRUE,
         data |-> CursorLimit(Skip(SortById(MatchUserIn(userIds1, o)), sk), lim),
         total |-> Len(MatchUserIn(userIds1, o))]

AggregationOnDocumentsWithInSkip(f, sk, lim, o) ==
    Facet(MatchUserIn(FindUserIds(f, o), o), sk, lim)

AggregationOnUsersWithLookupSkip(f, sk, lim, o) ==
    Facet(LookupUnwind(FindUserIds(f, o), o), sk, lim)

PaginatedMethod(m, f, sk, lim, o) ==
    CASE m = 1 -> FindWithInSkip(f, sk, lim, o)
      [] m = 2 -> AggregationOnDocumentsWithInSkip(f, sk, lim, o)
      [] OTHER -> AggregationOnUsersWithLookupSkip(f, sk, lim, o)

\* Math.floor((actualCount * 100) / 2) and Math.floor((actualCount * 100) / 4)
SkipOf(n) == (n * PageScale) \div 2
LimitOf(n) == (n * PageScale) \div 4

\* one entry of filters.json against the collections as they are; an entry
\* written for an empty users collection has actualCount 0
BenchInit ==
    /\ \E S \in SUBSET (1..MaxUsers) :
          /\ users = SeqOfSet(S, 1)
          /\ oids = IdsOfSet(S, 1)
    /\ docs \in DocCollections
    /\ filter \in BenchFilters
    /\ actualCount \in 0..2
    /\ method = 1 /\ iteration = 0
    /\ nonPaginatedResults = <<>> /\ paginatedResults = <<>>
    /\ bpc = "nonPaginated"
    /\ targetCount = 0 /\ seed = 0 /\ step = 0 /\ dbOrder = 1
    /\ calls = 0 /\ pc = "idle" /\ attempt = 0
    /\ count = 0 /\ distance = 0
    /\ bestFilter = MatchAll /\ bestCount = 0 /\ bestDistance = Infinity
    /\ previousAttempts = <<>> /\ result = NoResult
    /\ countQueries = 0 /\ aggQueries = 0 /\ scanQueries = 0
    /\ thrown = "none"
    /\ userIds = {} /\ sortField = "_id" /\ sortDirection = 1
    /\ limit = 1 /\ lastValue = Undefined /\ lastId = <<>> /\ page = NoPage
    /\ collected = <<>> /\ requests = 0 /\ ppc = "idle"
    /\ ProfileIdle
    /\ MainIdle /\ GenIdle /\ ConnIdle

BenchUnchanged ==
    UNCHANGED <<synthVars, pageVars, profVars, mainVars, genVars, connVars,
                oids, actualCount>>

\* lines 167-208: one iteration of one method, compared with the method's
\* previous iteration
RunNonPaginated ==
    /\ bpc = "nonPaginated"
    /\ \E o \in {1, -1} :
          LET results == NonPaginatedMethod(method, filter, o)
              seen == method <= Len(nonPaginatedResults)
          IN  IF seen /\ results # nonPaginatedResults[method]
              THEN /\ bpc' = "assertion failed"
                   /\ UNCHANGED <<method, iteration, nonPaginatedResults>>
              ELSE /\ nonPaginatedResults' =
                          (IF seen
                           THEN [nonPaginatedResults EXCEPT ![method] = results]
                           ELSE Append(nonPaginatedResults, results))
                   /\ IF iteration + 1 < MaxIterations
                      THEN iteration' = iteration + 1 /\ UNCHANGED <<method, bpc>>
                      ELSE /\ iteration' = 0
                           /\ IF method < 4
                              THEN method' = method + 1 /\ UNCHANGED bpc
                              ELSE method' = 1 /\ bpc' = "compareNonPaginated"
    /\ UNCHANGED paginatedResults
    /\ BenchUnchanged

\* lines 210-225
CompareNonPaginated ==
    /\ bpc = "compareNonPaginated"
    /\ bpc' = (IF \A m \in DOMAIN nonPaginatedResults :
                     nonPaginatedResults[m] = nonPaginatedResults[1]
               THEN "paginated" ELSE "assertion failed")
    /\ UNCHANGED <<method, iteration, nonPaginatedResults, paginatedResults>>
    /\ BenchUnchanged

\* lines 227-274
RunPaginated ==
    /\ bpc = "paginated"
    /\ \E o \in {1, -1} :
          LET results == PaginatedMethod(method, filter, SkipOf(actualCount),
                                         LimitOf(actualCount), o)
              seen == method <= Len(paginatedResults)
          IN  IF ~results.ok
              THEN /\ bpc' = "query failed"
                   /\ UNCHANGED <<method, iteration, paginatedResults>>
              ELSE IF seen /\ results # paginatedResults[method]
              THEN /\ bpc' = "assertion failed"
                   /\ UNCHANGED <<method, iteration, paginatedResults>>
              ELSE /\ paginatedResults' =
                          (IF seen
                           THEN [paginatedResults EXCEPT ![method] = results]
                           ELSE Append(paginatedResults, results))
                   /\ IF iteration + 1 < MaxIterations
                      THEN iteration' = iteration + 1 /\ UNCHANGED <<method, bpc>>
                      ELSE /\ iteration' = 0
                           /\ IF method < 3
                              THEN method' = method + 1 /\ UNCHANGED bpc
                              ELSE method' = 1 /\ bpc' = "comparePaginated"
    /\ UNCHANGED nonPaginatedResults
    /\ BenchUnchanged

\* lines 276-294
ComparePaginated ==
    /\ bpc = "comparePaginated"
    /\ bpc' = (IF \A m \in DOMAIN paginatedResults :
                     paginatedResults[m] = paginatedResults[1]
               THEN "done" ELSE "assertion failed")
    /\ UNCHANGED <<method, iteration, nonPaginatedResults, paginatedResults>>
    /\ BenchUnchanged

BenchNext == RunNonPaginated \/ CompareNonPaginated \/ RunPaginated \/ ComparePaginated

BenchSpec == BenchInit /\ [][BenchNext]_vars

\* C22 (as claimed): for one filter on an unmodified database every method
\* returns, the non-paginated methods return the same documents in the same
\* order, the skip/limit methods the same page and total, and an iteration
\* returns what the previous one returned
C22_StrategiesAgree ==
    /\ bpc \notin {"assertion failed", "query failed"}
    /\ \A m \in DOMAIN nonPaginatedResults :
          nonPaginatedResults[m] = nonPaginatedResults[1]
    /\ \A m \in DOMAIN paginatedResults :
          /\ paginatedResults[m].data = paginatedResults[1].data
          /\ paginatedResults[m].total = paginatedResults[1].total

====
